---- MODULE Spec2Model ----
(***************************************************************************)
(* A model of deanishe/alfred-fuzzy (src/demo/fuzzy.py): the fuzzy matcher *)
(* Fuzzy.match, the feedback filter Fuzzy.filter_feedback, the session     *)
(* cache Cache.load and main(), as state machines.                         *)
(*                                                                         *)
(* Text is a sequence of code points (naturals), so that case conversion,  *)
(* diacritic folding and string comparison are computed, not assumed.      *)
(* Indices q_idx, t_idx and best_letter_idx are 0-based as in the source;  *)
(* a TLA+ sequence is read at index + 1.                                   *)
(***************************************************************************)
EXTENDS Integers, Sequences, FiniteSets, TLC

(***************************************************************************)
(* Bounds of the model.                                                    *)
(***************************************************************************)
MaxQueryLen == 3
MaxTextLen == 4

(***************************************************************************)
(* Scoring weights: the module-level defaults of fuzzy.py, which           *)
(* Fuzzy.__init__ copies into the instance.                                *)
(***************************************************************************)
adj_bonus == 5
camel_bonus == 10
lead_penalty == -3
max_lead_penalty == -9
sep_bonus == 10
unmatched_penalty == -1
\* '_-.([/ ' as code points
separators == {95, 45, 46, 40, 91, 47, 32}

\* Python's None, for a character or an index
None == -1

(***************************************************************************)
(* Text helpers.                                                           *)
(***************************************************************************)
\* unicode.lower() / unicode.upper() of one character, on the code points
\* 0..254 other than 181 and 223 (ASCII and the Latin-1 letters)
Lower(c) == IF c \in 65..90 \/ (c \in 192..222 /\ c # 215) THEN c + 32 ELSE c

Upper(c) == IF c \in 97..122 \/ (c \in 224..254 /\ c # 247) THEN c - 32 ELSE c

Max(a, b) == IF a >= b THEN a ELSE b

\* all sequences over S of length at most n
SeqsUpTo(S, n) == UNION {[1..k -> S] : k \in 0..n}

(***************************************************************************)
(* Fuzzy.match: the scan.                                                  *)
(***************************************************************************)
\* the locals of match() before the loop, with the history of the leading
\* penalty: lead_n counts the executions of line 218 and lead_sum adds up
\* what they added to score
ScanInitNoSep ==
    [score |-> 0, q_idx |-> 0, t_idx |-> 0,
     prev_match |-> FALSE, prev_lower |-> FALSE, prev_sep |-> FALSE,
     best_letter |-> None, best_letter_idx |-> None, best_letter_score |-> 0,
     matched_indices |-> <<>>, lead_n |-> 0, lead_sum |-> 0]

ScanInit ==
    [score |-> 0, q_idx |-> 0, t_idx |-> 0,
     prev_match |-> FALSE, prev_lower |-> FALSE, prev_sep |-> TRUE,
     best_letter |-> None, best_letter_idx |-> None, best_letter_score |-> 0,
     matched_indices |-> <<>>, lead_n |-> 0, lead_sum |-> 0]

\* next_match = p_char and p_lower == s_lower
NextMatchCaseSensitive(p_char, s_char) == p_char # None /\ p_char = s_char

NextMatch(p_char, s_char) == p_char # None /\ Lower(p_char) = Lower(s_char)

\* rematch = best_letter and best_lower == s_lower
Rematch(best_letter, s_char) ==
    best_letter # None /\ Lower(best_letter) = Lower(s_char)

\* p_repeat = best_letter and p_char and best_lower == p_lower
PRepeat(best_letter, p_char) ==
    best_letter # None /\ p_char # None /\ Lower(best_letter) = Lower(p_char)

\* `if q_idx == 0:`, the guard of the leading penalty
LeadAppliesAlways(q_idx) == TRUE

LeadApplies(q_idx) == q_idx = 0

\* max(t_idx * lead_penalty, max_lead_penalty)
LeadPenaltyOffByOne(t_idx) == Max((t_idx + 1) * lead_penalty, max_lead_penalty)

LeadPenalty(t_idx) == Max(t_idx * lead_penalty, max_lead_penalty)

\* new_score, from the carry-over flags and the current character
NewScore(prev_match, prev_sep, prev_lower, s_char) ==
    (IF prev_match THEN adj_bonus ELSE 0)
    + (IF prev_sep THEN sep_bonus ELSE 0)
    + (IF prev_lower /\ s_char = Upper(s_char) /\ Lower(s_char) # Upper(s_char)
       THEN camel_bonus ELSE 0)

\* one iteration of `while t_idx != t_len`, on the locals st
ScanStep(st, q, t) ==
    LET p_char == IF st.q_idx # Len(q) THEN q[st.q_idx + 1] ELSE None
        s_char == t[st.t_idx + 1]
        s_lower == Lower(s_char)
        s_upper == Upper(s_char)
        next_match == NextMatch(p_char, s_char)
        rematch == Rematch(st.best_letter, s_char)
        advanced == next_match /\ st.best_letter # None
        p_repeat == PRepeat(st.best_letter, p_char)
        commit == advanced \/ p_repeat
        \* after `if advanced or p_repeat`
        score1 == IF commit THEN st.score + st.best_letter_score ELSE st.score
        matched1 == IF commit THEN Append(st.matched_indices, st.best_letter_idx)
                    ELSE st.matched_indices
        best1 == IF commit THEN None ELSE st.best_letter
        best_idx1 == IF commit THEN None ELSE st.best_letter_idx
        best_score1 == IF commit THEN 0 ELSE st.best_letter_score
        \* inside `if next_match or rematch`
        lead == IF LeadApplies(st.q_idx) THEN 1 ELSE 0
        score2 == IF lead = 1 THEN score1 + LeadPenalty(st.t_idx) ELSE score1
        new_score == NewScore(st.prev_match, st.prev_sep, st.prev_lower, s_char)
        q_idx2 == IF next_match THEN st.q_idx + 1 ELSE st.q_idx
        take == new_score >= best_score1
        score3 == IF take /\ best1 # None THEN score2 + unmatched_penalty ELSE score2
        now_lower == s_char = s_lower /\ s_lower # s_upper
        now_sep == s_char \in separators
    IN  IF next_match \/ rematch
        THEN [score |-> score3, q_idx |-> q_idx2, t_idx |-> st.t_idx + 1,
              prev_match |-> TRUE, prev_lower |-> now_lower, prev_sep |-> now_sep,
              best_letter |-> IF take THEN s_char ELSE best1,
              best_letter_idx |-> IF take THEN st.t_idx ELSE best_idx1,
              best_letter_score |-> IF take THEN new_score ELSE best_score1,
              matched_indices |-> matched1,
              lead_n |-> st.lead_n + lead,
              lead_sum |-> st.lead_sum + lead * LeadPenalty(st.t_idx)]
        ELSE [score |-> score1 + unmatched_penalty, q_idx |-> st.q_idx,
              t_idx |-> st.t_idx + 1,
              prev_match |-> FALSE, prev_lower |-> now_lower, prev_sep |-> now_sep,
              best_letter |-> best1, best_letter_idx |-> best_idx1,
              best_letter_score |-> best_score1,
              matched_indices |-> matched1,
              lead_n |-> st.lead_n, lead_sum |-> st.lead_sum]

\* after the loop: `if best_letter:` commits the pending candidate
ScanEndNoCommit(st) == st

ScanEnd(st) ==
    IF st.best_letter # None
    THEN [st EXCEPT !.score = st.score + st.best_letter_score,
                    !.matched_indices = Append(st.matched_indices, st.best_letter_idx)]
    ELSE st

\* res = (q_idx == q_len, score)
ScanResultEmptyFails(st, q) ==
    [matched |-> st.q_idx = Len(q) /\ Len(q) # 0, score |-> st.score]

ScanResult(st, q) == [matched |-> st.q_idx = Len(q), score |-> st.score]

RECURSIVE ScanFrom(_, _, _)
ScanFrom(st, q, t) ==
    IF st.t_idx # Len(t) THEN ScanFrom(ScanStep(st, q, t), q, t) ELSE ScanEnd(st)

\* match(query, terms) on an instance whose memo does not hold the pair
Match(q, t) == ScanResult(ScanFrom(ScanInit, q, t), q)

(***************************************************************************)
(* Diacritic folding (fold_diacritics, isascii).                           *)
(***************************************************************************)
\* the base letter of the NFD decomposition of the accented letters the
\* model uses: e-acute, E-acute, o-diaeresis, u-diaeresis
NFDBase == (233 :> 101) @@ (201 :> 69) @@ (246 :> 111) @@ (252 :> 117)

\* normalize('NFD', c).encode('us-ascii', 'ignore') of one character: ASCII
\* stays, an accented letter of NFDBase keeps its base letter (the combining
\* mark is dropped), and a non-ASCII character without a decomposition is
\* dropped; the texts of the model hold no other accented letters
FoldChar(c) ==
    IF c < 128 THEN <<c>>
    ELSE IF c \in DOMAIN NFDBase THEN <<NFDBase[c]>>
    ELSE <<>>

RECURSIVE fold_diacritics(_)
fold_diacritics(u) ==
    IF u = <<>> THEN <<>> ELSE FoldChar(Head(u)) \o fold_diacritics(Tail(u))

\* u == fold_diacritics(u)
isasciiByLength(u) == Len(u) = Len(fold_diacritics(u))

isascii(u) == u = fold_diacritics(u)

(***************************************************************************)
(* decode: the query of the environment, a UTF-8 byte string, becomes      *)
(* NFC-normalised text.                                                    *)
(***************************************************************************)
\* s.decode('utf-8'), for bytes that encode code points below 2048: a byte
\* below 128 is its character, a lead byte 192..223 and its continuation
\* byte give one character
RECURSIVE Utf8Decode(_)
Utf8Decode(s) ==
    IF s = <<>> THEN <<>>
    ELSE IF s[1] < 128 THEN <<s[1]>> \o Utf8Decode(Tail(s))
    ELSE <<(s[1] - 192) * 64 + (s[2] - 128)>> \o Utf8Decode(SubSeq(s, 3, Len(s)))

\* the canonical composition of a base letter and a combining mark (769
\* acute, 776 diaeresis), for the accented letters of NFDBase
NFCPairs ==
    (<<101, 769>> :> 233) @@ (<<69, 769>> :> 201)
    @@ (<<111, 776>> :> 246) @@ (<<117, 776>> :> 252)

\* normalize('NFC', u)
RECURSIVE NFC(_)
NFC(u) ==
    IF Len(u) < 2 THEN u
    ELSE IF <<u[1], u[2]>> \in DOMAIN NFCPairs
    THEN <<NFCPairs[<<u[1], u[2]>>]>> \o NFC(SubSeq(u, 3, Len(u)))
    ELSE <<u[1]>> \o NFC(Tail(u))

\* decode(s) of a byte string s
decode(s) == NFC(Utf8Decode(s))

(***************************************************************************)
(* Python 2 ordering of the values list.sort compares in filter_feedback:  *)
(* unicode strings, dicts and (score, dict) tuples.                        *)
(***************************************************************************)
\* the keys of a candidate dict, in the order of Python's string comparison
KeyOrder == <<"arg", "match", "title", "uid">>

KeyRank(k) == CHOOSE i \in 1..Len(KeyOrder) : KeyOrder[i] = k

\* u < w for unicode strings: by code point, a proper prefix is smaller
RECURSIVE StrLess(_, _)
StrLess(u, w) ==
    IF w = <<>> THEN FALSE
    ELSE IF u = <<>> THEN TRUE
    ELSE IF Head(u) # Head(w) THEN Head(u) < Head(w)
    ELSE StrLess(Tail(u), Tail(w))

\* characterize(a, b): the keys of a whose value differs in b or is absent
DiffKeys(a, b) == {k \in DOMAIN a : k \notin DOMAIN b \/ a[k] # b[k]}

MinKey(S) == CHOOSE k \in S : \A o \in S : KeyRank(k) <= KeyRank(o)

\* dict_compare(a, b) < 0: the shorter dict is smaller; of two dicts of one
\* length, the smallest differing key decides, then its value
DictLess(a, b) ==
    LET na == Cardinality(DOMAIN a)
        nb == Cardinality(DOMAIN b)
    IN  IF na # nb THEN na < nb
        ELSE IF DiffKeys(a, b) = {} THEN FALSE
        ELSE LET adiff == MinKey(DiffKeys(a, b))
                 bdiff == MinKey(DiffKeys(b, a))
             IN  IF adiff # bdiff THEN KeyRank(adiff) < KeyRank(bdiff)
                 ELSE StrLess(a[adiff], b[bdiff])

\* (score, it) < (score, it) for the tuples filter_feedback sorts
TupleLess(x, y) ==
    IF x[1] # y[1] THEN x[1] < y[1]
    ELSE IF x[2] = y[2] THEN FALSE
    ELSE DictLess(x[2], y[2])

\* list.sort(reverse=True): descending by TupleLess, and stable: an element
\* goes behind every earlier element that is not smaller than it
InsertReverse(L, e) ==
    LET k == Cardinality({i \in 1..Len(L) : ~TupleLess(L[i], e)})
    IN  SubSeq(L, 1, k) \o <<e>> \o SubSeq(L, k + 1, Len(L))

RECURSIVE SortReverse(_)
SortReverse(L) ==
    IF L = <<>> THEN <<>>
    ELSE InsertReverse(SortReverse(SubSeq(L, 1, Len(L) - 1)), L[Len(L)])

(***************************************************************************)
(* Fuzzy.filter_feedback.                                                  *)
(***************************************************************************)
\* terms = it['match'] if 'match' in it else it['title']
TermsTitleOnly(it) == it["title"]

Terms(it) == IF "match" \in DOMAIN it THEN it["match"] ELSE it["title"]

\* the text match() is given: folded when the query is plain ASCII
FoldedTerms(it, q) == IF isascii(q) THEN fold_diacritics(Terms(it)) ELSE Terms(it)

\* the (score, it) tuples of the items that match, in input order
RECURSIVE Scored(_, _)
Scored(items, q) ==
    IF items = <<>> THEN <<>>
    ELSE LET it == Head(items)
             res == Match(q, FoldedTerms(it, q))
         IN  (IF res.matched THEN << <<res.score, it>> >> ELSE <<>>)
             \o Scored(Tail(items), q)

\* fb['items'] after filter_feedback(fb, query)
FilterFeedbackUnsorted(items, q) ==
    LET scored == Scored(items, q)
    IN  [i \in 1..Len(scored) |-> scored[i][2]]

FilterFeedback(items, q) ==
    LET sorted == SortReverse(Scored(items, q))
    IN  [i \in 1..Len(sorted) |-> sorted[i][2]]

\* the entries the match() calls of filter_feedback leave in the memo
MemoEntries(items, q) ==
    {[key |-> <<q, FoldedTerms(items[i], q)>>,
      res |-> Match(q, FoldedTerms(items[i], q))] : i \in 1..Len(items)}

(***************************************************************************)
(* Feedback documents and their JSON text.                                 *)
(* A document is a dict with the optional keys "items" (a list of items)   *)
(* and "variables" (a dict of strings).  JSON text is a sequence of        *)
(* tokens: json.dump writes it (Dump) and json.loads parses it (Loads).    *)
(***************************************************************************)
\* SID, the name of the workflow variable that stores the session id
SID == "fuzzy_session_id"

\* the items a document may list; in JSON text an item is one token, its
\* name, which stands for the item's JSON object (ItemOf)
ItemNames ==
    {"i1", "i2", "Firefox", "Safari", "Chrome", "Cafe", "CafePlain",
     "WebFirefox", "FxWeb", "ChromeUid"}
\* the keys of a variables dict, in the order they are written
VarKeyOrder == <<SID, "other">>
VarKeys == {VarKeyOrder[i] : i \in 1..Len(VarKeyOrder)}
\* the session tokens: str(os.getpid()) of the processes
Tokens == {"7", "8"}
VarVals == Tokens \cup {"0", "v"}

\* json.loads raised ValueError
Invalid == [invalid |-> TRUE]
\* no document (None)
NoDoc == [none |-> TRUE]
\* no file of that name
NoFile == <<"ENOENT">>
\* no session id in the environment
NoToken == ""
\* no text read yet
NoText == <<"NOTEXT">>

RECURSIVE DumpVars(_, _)
DumpVars(v, i) ==
    IF i > Len(VarKeyOrder) THEN <<>>
    ELSE (IF VarKeyOrder[i] \in DOMAIN v
          THEN <<VarKeyOrder[i], v[VarKeyOrder[i]]>> ELSE <<>>)
         \o DumpVars(v, i + 1)

\* json.dump(fb, fp): the text written for the document fb
DumpItemsOnly(doc) ==
    <<"{">>
    \o (IF "items" \in DOMAIN doc THEN <<"items", "[">> \o doc["items"] \o <<"]">>
        ELSE <<>>)
    \o <<"}">>

Dump(doc) ==
    <<"{">>
    \o (IF "items" \in DOMAIN doc THEN <<"items", "[">> \o doc["items"] \o <<"]">>
        ELSE <<>>)
    \o (IF "variables" \in DOMAIN doc
        THEN <<"variables", "{">> \o DumpVars(doc["variables"], 1) \o <<"}">>
        ELSE <<>>)
    \o <<"}">>

\* the first position >= from that holds tok, or 0
IndexOf(js, tok, from) ==
    IF \E i \in from..Len(js) : js[i] = tok
    THEN CHOOSE i \in from..Len(js) : js[i] = tok /\ \A k \in from..(i - 1) : js[k] # tok
    ELSE 0

\* the variables dict of the key/value tokens kv; a repeated key keeps its
\* last value
RECURSIVE VarsOf(_)
VarsOf(kv) ==
    IF kv = <<>> THEN <<>>
    ELSE LET rest == VarsOf(SubSeq(kv, 1, Len(kv) - 2))
             k == kv[Len(kv) - 1]
         IN  [x \in DOMAIN rest \cup {k} |-> IF x = k THEN kv[Len(kv)] ELSE rest[x]]

\* an optional "items" member at position i: [ok, has, val, next]
ParseItems(js, i) ==
    IF i <= Len(js) /\ js[i] = "items"
    THEN LET close == IndexOf(js, "]", i + 2)
         IN  IF /\ i + 1 <= Len(js)
                /\ js[i + 1] = "["
                /\ close # 0
                /\ \A k \in (i + 2)..(close - 1) : js[k] \in ItemNames
             THEN [ok |-> TRUE, has |-> TRUE, val |-> SubSeq(js, i + 2, close - 1),
                   next |-> close + 1]
             ELSE [ok |-> FALSE, has |-> FALSE, val |-> <<>>, next |-> i]
    ELSE [ok |-> TRUE, has |-> FALSE, val |-> <<>>, next |-> i]

\* an optional "variables" member at position i: [ok, has, val, next]
ParseVars(js, i) ==
    IF i <= Len(js) /\ js[i] = "variables"
    THEN LET close == IndexOf(js, "}", i + 2)
         IN  IF /\ i + 1 <= Len(js)
                /\ js[i + 1] = "{"
                /\ close # 0
                /\ (close - (i + 2)) % 2 = 0
                /\ \A k \in (i + 2)..(close - 1) :
                      IF (k - i) % 2 = 0 THEN js[k] \in VarKeys ELSE js[k] \in VarVals
             THEN [ok |-> TRUE, has |-> TRUE, val |-> VarsOf(SubSeq(js, i + 2, close - 1)),
                   next |-> close + 1]
             ELSE [ok |-> FALSE, has |-> FALSE, val |-> <<>>, next |-> i]
    ELSE [ok |-> TRUE, has |-> FALSE, val |-> <<>>, next |-> i]

\* json.loads(js): the document, or Invalid when js is not one JSON object
Loads(js) ==
    IF Len(js) < 2 \/ js[1] # "{" THEN Invalid
    ELSE LET a == ParseItems(js, 2)
             b == ParseVars(js, a.next)
         IN  IF a.ok /\ b.ok /\ b.next = Len(js) /\ js[Len(js)] = "}"
             THEN [k \in (IF a.has THEN {"items"} ELSE {})
                         \cup (IF b.has THEN {"variables"} ELSE {}) |->
                      IF k = "items" THEN a.val ELSE b.val]
             ELSE Invalid

\* fb['variables'][SID] = sid, or fb['variables'] = {SID: sid}
Inject(doc, sid) ==
    LET old == IF "variables" \in DOMAIN doc THEN doc["variables"] ELSE <<>>
        new == [k \in DOMAIN old \cup {SID} |-> IF k = SID THEN sid ELSE old[k]]
    IN  [k \in DOMAIN doc \cup {"variables"} |->
            IF k = "variables" THEN new ELSE doc[k]]

\* write(2) of text at offset 0 of a file that holds old: what lies behind
\* the written bytes stays
Overwrite(old, text) == text \o SubSeq(old, Len(text) + 1, Len(old))

(***************************************************************************)
(* State.                                                                  *)
(*   self, query, terms, scan, mpc, result: one call of Fuzzy.match, on    *)
(*   the Fuzzy instance self; memo[i] is the _cache of instance i.         *)
(*   fb_in, fb, fquery, fpc: one call of filter_feedback(fb, fquery); fb   *)
(*   is fb['items'], which the call replaces, and fb_in its value on entry.*)
(*   proc, dir_exists, files, openers, clr: the invocations of the program *)
(*   (one process each, running main()) and the cache directory they       *)
(*   share.  proc[p] holds the Cache attributes, the locals of load() and  *)
(*   of main(), the descriptor load() has open on its cache file (fd),     *)
(*   what the process wrote to sys.stdout, the _cache of its Fuzzy         *)
(*   instance, and the history of what the invocation did (runs, writes,   *)
(*   saw_file, read_src); files[t] is the text of <cache_dir>/<t>.json;    *)
(*   openers[t] is the history of which invocations opened a file of that  *)
(*   name for writing; orphans[o] is the text of a file that was unlinked  *)
(*   while descriptors were open on it, NoFile when o is not in use; clr   *)
(*   is a caller of Cache.clear(): where it is and the names os.listdir    *)
(*   gave it that it has yet to unlink.                                    *)
(*   env_query, cmd: what the invocations are started with:                *)
(*   os.getenv('query'), a byte string, and the producer command           *)
(*   sys.argv[1:], given by the set of texts it may print.                 *)
(***************************************************************************)
VARIABLES self, query, terms, scan, mpc, result, memo, fb_in, fb, fquery, fpc,
          proc, dir_exists, files, openers, orphans, clr, env_query, cmd

mvars == <<self, query, terms, scan, mpc, result, memo>>
fvars == <<fb_in, fb, fquery, fpc>>
cvars == <<proc, dir_exists, files, openers, orphans, clr>>
nvars == <<env_query, cmd>>
vars == <<mvars, fvars, cvars, nvars>>

\* the Fuzzy instances: Fuzzy.__init__ gives each an empty _cache of its own
Instances == {1, 2}
NoMemo == [i \in Instances |-> {}]

MaxProcs == 2
Procs == 1..MaxProcs

\* what a descriptor is open on: nothing, the file its cache path names,
\* or an unlinked file, one of orphans
NoFd == -1
Linked == 0

\* Cache.__init__, before load() is called
ProcIdle ==
    [pc |-> "idle", env_sid |-> NoToken, pid |-> NoToken,
     session_id |-> NoToken, from_cache |-> FALSE,
     js |-> NoText, fb |-> NoDoc, ret |-> NoDoc, err |-> "",
     fd |-> NoFd, stdout |-> NoText, memo |-> {},
     runs |-> 0, writes |-> 0, saw_file |-> "unknown", read_src |-> 0]

\* no clear() call is under way
ClearIdle == [pc |-> "idle", todo |-> {}]

\* no invocation has started and the cache directory does not exist
CacheIdle ==
    /\ proc = [p \in Procs |-> ProcIdle]
    /\ dir_exists = FALSE
    /\ files = [t \in Tokens |-> NoFile]
    /\ openers = [t \in Tokens |-> {}]
    /\ orphans = [o \in Procs |-> NoFile]
    /\ clr = ClearIdle

\* match() has not returned
NoResult == [matched |-> FALSE, score |-> 0, none |-> TRUE]

\* no filter_feedback call is under way
FilterIdle == fb_in = <<>> /\ fb = <<>> /\ fquery = <<>> /\ fpc = "idle"

\* what the producer command may print: a document with items, a document
\* with items and variables of its own (one of them under SID), a JSON
\* object without items, and text that is not JSON
OutItems == Dump([items |-> <<"i1">>])
OutItemsVars ==
    Dump([items |-> <<"i1", "i2">>,
          variables |-> [fuzzy_session_id |-> "0", other |-> "v"]])
OutNoItems == <<"{", "}">>
OutNotJSON == <<"{", "items">>
ProducerOutputs == {OutItems, OutItemsVars, OutNoItems, OutNotJSON}
\* check_output raised: the command could not be launched or exited non-zero
ProducerFailed == <<"EXIT">>

\* the environment sets no query, and the producer command is one that may
\* print any of those texts or fail
MainIdle == env_query = <<>> /\ cmd = ProducerOutputs \cup {ProducerFailed}

\* no match call is under way
MatchIdle ==
    /\ self = 1
    /\ query = <<>>
    /\ terms = <<>>
    /\ scan = ScanInit
    /\ mpc = "idle"
    /\ result = NoResult

\* the characters texts are drawn from: a x X _
Alphabet == {97, 120, 88, 95}

Queries == SeqsUpTo(Alphabet, MaxQueryLen)
Texts == SeqsUpTo(Alphabet, MaxTextLen)

\* the pairs named by the specification's examples:
\* ("abc", "ABC") and ("ba", "ab")
NamedPairs == {<< <<97, 98, 99>>, <<65, 66, 67>> >>, << <<98, 97>>, <<97, 98>> >>}

\* pairs whose first match lies past position 3, where t_idx * lead_penalty
\* is below max_lead_penalty: ("x", "aaaax"), ("x", "aaaaax"),
\* ("x", "aaaaaxx") and ("xa", "aaaaaxxa")
LeadPairs ==
    {<< <<120>>, <<97, 97, 97, 97, 120>> >>,
     << <<120>>, <<97, 97, 97, 97, 97, 120>> >>,
     << <<120>>, <<97, 97, 97, 97, 97, 120, 120>> >>,
     << <<120, 97>>, <<97, 97, 97, 97, 97, 120, 120, 97>> >>}

(***************************************************************************)
(* Fuzzy.match as a process: the call, the loop, the return.               *)
(***************************************************************************)
\* match(query, terms) entered on a fresh instance: the memo misses and the
\* locals are initialised
MatchInit ==
    /\ \E pair \in (Queries \X Texts) \cup NamedPairs \cup LeadPairs :
          /\ query = pair[1]
          /\ terms = pair[2]
    /\ self = 1
    /\ scan = ScanInit
    /\ mpc = "loop"
    /\ result = NoResult
    /\ memo = NoMemo
    /\ FilterIdle
    /\ CacheIdle
    /\ MainIdle

\* one iteration of the while loop
MatchLoop ==
    /\ mpc = "loop"
    /\ scan.t_idx # Len(terms)
    /\ scan' = ScanStep(scan, query, terms)
    /\ UNCHANGED <<self, query, terms, mpc, result, memo, fvars, cvars, nvars>>

\* the loop has ended: commit the pending candidate, store and return res
MatchReturn ==
    /\ mpc = "loop"
    /\ scan.t_idx = Len(terms)
    /\ scan' = ScanEnd(scan)
    /\ result' = ScanResult(scan', query)
    /\ memo' = [memo EXCEPT ![self] = @ \cup {[key |-> <<query, terms>>,
                                              res |-> result']}]
    /\ mpc' = "done"
    /\ UNCHANGED <<self, query, terms, fvars, cvars, nvars>>

MatchNext == MatchLoop \/ MatchReturn

SpecMatch == MatchInit /\ [][MatchNext]_vars

(***************************************************************************)
(* Claims about Fuzzy.match, checked under SpecMatch.                      *)
(***************************************************************************)
\* q, compared character by character ignoring case, is a subsequence of t:
\* either q is empty, or its first character is paired with the first
\* character of t and the rest of q lies in the rest of t, or the whole of q
\* lies in the rest of t
RECURSIVE IsSubsequence(_, _)
IsSubsequence(q, t) ==
    IF q = <<>> THEN TRUE
    ELSE IF t = <<>> THEN FALSE
    ELSE \/ Lower(q[1]) = Lower(t[1]) /\ IsSubsequence(Tail(q), Tail(t))
         \/ IsSubsequence(q, Tail(t))

\* C4: match(Q, T) returns matched = true if and only if Q, ignoring case,
\* is a subsequence of T; match("abc", "ABC") is matched and
\* match("ba", "ab") is not.
C4_MatchedIffSubsequence ==
    mpc = "done" =>
        /\ result.matched <=> IsSubsequence(query, terms)
        /\ (query = <<97, 98, 99>> /\ terms = <<65, 66, 67>>) => result.matched
        /\ (query = <<98, 97>> /\ terms = <<97, 98>>) => ~result.matched

\* a call that matched across a gap and a difference of case: "xa" in "Xxa"
\* or the like
C4_Witness ==
    /\ mpc = "done"
    /\ result.matched
    /\ Len(query) = 2
    /\ Len(terms) = 3
    /\ query[1] # terms[1]
    /\ scan.matched_indices = <<0, 2>>

\* C7 as claimed: for every text T, match(T, T) is matched and scores
\* strictly more than match(T, T + "x").
C7_Claim ==
    (mpc = "done" /\ query = terms) =>
        /\ result.matched
        /\ result.score > Match(terms, Append(terms, 120)).score

\* C8: match("", T) is matched with score len(T) * unmatched_penalty: every
\* character of T takes the unmatched branch, and no candidate, bonus or
\* leading penalty is ever involved.
C8_EmptyQueryScore ==
    query = <<>> =>
        /\ scan.score = scan.t_idx * unmatched_penalty
        /\ scan.best_letter = None
        /\ scan.matched_indices = <<>>
        /\ ~scan.prev_match
        /\ mpc = "done" =>
              /\ result.matched
              /\ result.score = Len(terms) * unmatched_penalty
              /\ result.score = -Len(terms)

C8_Witness ==
    /\ mpc = "done"
    /\ query = <<>>
    /\ Len(terms) = 3
    /\ result.score = -3

(***************************************************************************)
(* Calls of Fuzzy.match, one after another, on two Fuzzy instances whose   *)
(* weights stay as constructed.                                            *)
(***************************************************************************)
\* the pairs the calls are made with: queries "x", "X", "xx" and texts
\* "ax", "xxx"
MemoPairs == {<<120>>, <<88>>, <<120, 120>>} \X {<<97, 120>>, <<120, 120, 120>>}

\* `key in self._cache`
MemoHit(m, key) == \E e \in m : e.key = key

\* self._cache[key]
MemoGetByQuery(m, key) == (CHOOSE e \in m : e.key[1] = key[1]).res

MemoGet(m, key) == (CHOOSE e \in m : e.key = key).res

MemoInit ==
    /\ memo = NoMemo
    /\ MatchIdle
    /\ FilterIdle
    /\ CacheIdle
    /\ MainIdle

\* match(query, terms) is called on an instance, after any earlier call has
\* returned (lines 173-192): a pair the instance's memo holds is answered
\* from it, otherwise the locals are initialised for the scan
MemoCall ==
    /\ mpc \in {"idle", "done"}
    /\ \E i \in Instances : \E pair \in MemoPairs :
          /\ self' = i
          /\ query' = pair[1]
          /\ terms' = pair[2]
          /\ IF MemoHit(memo[i], pair)
             THEN /\ result' = MemoGet(memo[i], pair)
                  /\ mpc' = "done"
                  /\ UNCHANGED scan
             ELSE /\ result' = NoResult
                  /\ mpc' = "loop"
                  /\ scan' = ScanInit
    /\ UNCHANGED <<memo, fvars, cvars, nvars>>

MemoNext == MemoCall \/ MatchLoop \/ MatchReturn

SpecMemo == MemoInit /\ [][MemoNext]_vars

\* what C15 says of one state
C15_State ==
    /\ \A i \in Instances : \A e \in memo[i] :
          /\ e.res = Match(e.key[1], e.key[2])
          /\ \A f \in memo[i] : f.key = e.key => f = e
    /\ mpc = "done" =>
          /\ result = Match(query, terms)
          /\ [key |-> <<query, terms>>, res |-> result] \in memo[self]

\* what C15 says of one step
C15_Step ==
    /\ \A i \in Instances : memo[i] \subseteq memo'[i]
    /\ \A i \in Instances : memo'[i] # memo[i] =>
          /\ i = self
          /\ memo'[i] = memo[i] \cup {[key |-> <<query, terms>>, res |-> result']}
    /\ (mpc \in {"idle", "done"} /\ mpc' = "done") =>
          \E e \in memo[self'] : e.key = <<query', terms'>> /\ e.res = result'
    /\ (mpc \in {"idle", "done"} /\ mpc' = "loop") =>
          \A e \in memo[self'] : e.key # <<query', terms'>>

\* C15: for any sequence of match calls on one Fuzzy instance, every call
\* with a pair (query, text) returns the result of the first call with that
\* pair, which is the result a fresh instance gives; a memo entry is keyed by
\* the exact pair, is never changed once stored, and only the instance that
\* stored it sees it.
C15_Memo ==
    /\ []C15_State
    /\ [][C15_Step]_vars

\* instance 2 has answered ("x", "ax") from its memo (the locals are still
\* those of a scan of "xxx"), and instance 1 holds entries of its own
C15_Witness ==
    /\ mpc = "done"
    /\ self = 2
    /\ query = <<120>>
    /\ terms = <<97, 120>>
    /\ scan.t_idx = 3
    /\ result = Match(<<120>>, <<97, 120>>)
    /\ memo[1] # {}
    /\ \A e \in memo[1] : e.key # <<query, terms>>

(***************************************************************************)
(* The scan as the specification words it (section 4.1, steps 1 to 5): a   *)
(* cursor into the query, one pending-candidate slot, three carry-over     *)
(* flags and a running total.  lead_tentative says where the leading       *)
(* penalty term goes: into the tentative score of the position, or         *)
(* straight into the running total.                                        *)
(***************************************************************************)
NoPending == [none |-> TRUE]

SpecScanInit ==
    [cursor |-> 0, pending |-> NoPending, total |-> 0,
     was_match |-> FALSE, was_lower |-> FALSE, was_sep |-> TRUE]

\* the leading penalty term of position pos: pos * lead_penalty, floored at
\* max_lead_penalty
LeadTerm(pos) ==
    IF pos * lead_penalty > max_lead_penalty THEN pos * lead_penalty
    ELSE max_lead_penalty

\* steps 1 to 5 for the character at position pos of t
SpecScanStep(s, q, t, pos, lead_tentative) ==
    LET c == t[pos + 1]
        cur == IF s.cursor < Len(q) THEN q[s.cursor + 1] ELSE None
        nextMatch == cur # None /\ Lower(c) = Lower(cur)
        rematch == s.pending # NoPending /\ Lower(c) = Lower(s.pending.char)
        repeat == /\ s.pending # NoPending
                  /\ cur # None
                  /\ Lower(cur) = Lower(s.pending.char)
        commit == s.pending # NoPending /\ (nextMatch \/ repeat)
        total1 == IF commit THEN s.total + s.pending.score ELSE s.total
        pending1 == IF commit THEN NoPending ELSE s.pending
        lead == IF s.cursor = 0 THEN LeadTerm(pos) ELSE 0
        bonus == (IF s.was_match THEN adj_bonus ELSE 0)
                 + (IF s.was_sep THEN sep_bonus ELSE 0)
                 + (IF s.was_lower /\ Upper(c) = c /\ Lower(c) # c
                    THEN camel_bonus ELSE 0)
        tentative == IF lead_tentative THEN lead + bonus ELSE bonus
        total2 == IF lead_tentative THEN total1 ELSE total1 + lead
        replace == pending1 = NoPending \/ tentative >= pending1.score
        total3 == IF replace /\ pending1 # NoPending
                  THEN total2 + unmatched_penalty ELSE total2
        is_lower == Lower(c) = c /\ Upper(c) # c
        is_sep == c \in separators
    IN  IF nextMatch \/ rematch
        THEN [cursor |-> IF nextMatch THEN s.cursor + 1 ELSE s.cursor,
              pending |-> IF replace
                          THEN [char |-> c, score |-> tentative, pos |-> pos]
                          ELSE pending1,
              total |-> total3,
              was_match |-> TRUE, was_lower |-> is_lower, was_sep |-> is_sep]
        ELSE [cursor |-> s.cursor, pending |-> pending1,
              total |-> total1 + unmatched_penalty,
              was_match |-> FALSE, was_lower |-> is_lower, was_sep |-> is_sep]

\* the state of the specified scan after the first n characters of t
RECURSIVE SpecScanUpTo(_, _, _, _)
SpecScanUpTo(q, t, n, lead_tentative) ==
    IF n = 0 THEN SpecScanInit
    ELSE SpecScanStep(SpecScanUpTo(q, t, n - 1, lead_tentative), q, t, n - 1,
                      lead_tentative)

\* the score of the specified scan: after the last character a pending
\* candidate is committed
SpecScore(q, t, lead_tentative) ==
    LET s == SpecScanUpTo(q, t, Len(t), lead_tentative)
    IN  IF s.pending # NoPending THEN s.total + s.pending.score ELSE s.total

\* C13 as claimed: the score match returns is the score of the specified
\* scan in which the leading penalty term is a component of the tentative
\* score of the candidate position, entering the total only when that
\* candidate is committed and dropped with it when a rematch replaces it.
C13_Claim ==
    mpc = "done" => result.score = SpecScore(query, terms, TRUE)

\* C13 amended: the score match returns is the score of the specified scan
\* in which the leading penalty term is added to the running total at once,
\* at the position where the query cursor leaves its first character, and
\* the tentative score of a candidate is the sum of the adjacency,
\* separator and camel-case bonuses only; the term stays in the total when
\* a later rematch replaces the candidate.  The two scans agree after every
\* character on the total, the cursor and the pending candidate.
C13_LeadInTotal ==
    /\ mpc = "loop" =>
          LET s == SpecScanUpTo(query, terms, scan.t_idx, FALSE)
          IN  /\ s.total = scan.score
              /\ s.cursor = scan.q_idx
              /\ (s.pending = NoPending) <=> (scan.best_letter = None)
              /\ s.pending # NoPending =>
                    /\ s.pending.char = scan.best_letter
                    /\ s.pending.score = scan.best_letter_score
                    /\ s.pending.pos = scan.best_letter_idx
    /\ mpc = "done" => result.score = SpecScore(query, terms, FALSE)

\* match("x", "axx") has returned: the leading penalty of position 1 is in
\* the score although the rematch at position 2 replaced the candidate
C13_Witness ==
    /\ mpc = "done"
    /\ query = <<120>>
    /\ terms = <<97, 120, 120>>
    /\ scan.matched_indices = <<2>>
    /\ scan.lead_sum = lead_penalty
    /\ result.score = 0

\* the first position of t whose character matches the first character of
\* q, ignoring case, or None
FirstMatchPos(q, t) ==
    IF q # <<>> /\ \E k \in 1..Len(t) : Lower(t[k]) = Lower(q[1])
    THEN (CHOOSE k \in 1..Len(t) :
              /\ Lower(t[k]) = Lower(q[1])
              /\ \A j \in 1..(k - 1) : Lower(t[j]) # Lower(q[1])) - 1
    ELSE None

\* C14: in one match call the leading penalty is applied at most once, at
\* the first text position that matches the first query character, with
\* amount max(position * lead_penalty, max_lead_penalty); what it adds to
\* the score is never below max_lead_penalty (-9) and is 0 when the first
\* match is at position 0.
C14_LeadOnce ==
    LET first == FirstMatchPos(query, terms)
        seen == first # None /\ first < scan.t_idx
    IN  /\ scan.lead_n <= 1
        /\ scan.lead_n = 1 <=> seen
        /\ seen => scan.lead_sum = LeadTerm(first)
        /\ ~seen => scan.lead_sum = 0
        /\ scan.lead_sum >= max_lead_penalty
        /\ scan.lead_sum >= -9
        /\ scan.lead_sum <= 0
        /\ first = 0 => scan.lead_sum = 0
        /\ (seen /\ first * lead_penalty < max_lead_penalty) =>
              scan.lead_sum = max_lead_penalty

\* a call whose first match was at position 5, where 5 * lead_penalty = -15
\* is below the cap, and a rematch followed: the penalty was applied once
\* and is the cap, -9
C14_Witness ==
    /\ mpc = "done"
    /\ query = <<120>>
    /\ terms = <<97, 97, 97, 97, 97, 120, 120>>
    /\ FirstMatchPos(query, terms) = 5
    /\ 5 * lead_penalty < max_lead_penalty
    /\ scan.lead_n = 1
    /\ scan.lead_sum = -9
    /\ result.score = -10

\* C17: a match on the first character of the text gets the separator
\* bonus, as if a separator preceded the text: for a one-character query c
\* and a text that starts with c, ignoring case, the pending candidate at
\* position 0 has tentative score sep_bonus, and match(c, c) scores
\* sep_bonus.
C17_FirstCharSepBonus ==
    (Len(query) = 1 /\ terms # <<>> /\ Lower(terms[1]) = Lower(query[1])) =>
        /\ (mpc = "loop" /\ scan.t_idx = 1) =>
              /\ scan.best_letter = terms[1]
              /\ scan.best_letter_idx = 0
              /\ scan.best_letter_score = sep_bonus
              /\ scan.score = 0
        /\ (mpc = "done" /\ Len(terms) = 1) =>
              /\ result.matched
              /\ result.score = sep_bonus
              /\ result.score = 10

\* the scan of match("x", "X...") after the first character
C17_Witness ==
    /\ mpc = "loop"
    /\ query = <<120>>
    /\ Len(terms) > 1
    /\ terms[1] = 88
    /\ scan.t_idx = 1
    /\ scan.best_letter_idx = 0
    /\ scan.best_letter_score = sep_bonus

\* what C20 says of one state of the scan
C20_State ==
    LET m == scan.matched_indices
        pending == IF scan.best_letter # None THEN 1 ELSE 0
    IN  /\ scan.q_idx \in 0..Len(query)
        /\ (scan.best_letter = None) <=> (scan.best_letter_idx = None)
        /\ scan.best_letter # None =>
              /\ scan.q_idx >= 1
              /\ Lower(scan.best_letter) = Lower(query[scan.q_idx])
              /\ scan.best_letter_idx \in 0..(Len(terms) - 1)
              /\ scan.best_letter = terms[scan.best_letter_idx + 1]
        /\ mpc = "loop" => Len(m) + pending = scan.q_idx
        /\ mpc = "done" =>
              /\ Len(m) = scan.q_idx
              /\ \A k \in 1..Len(m) :
                    /\ m[k] \in 0..(Len(terms) - 1)
                    /\ Lower(terms[m[k] + 1]) = Lower(query[k])
                    /\ k > 1 => m[k - 1] < m[k]

\* C20: throughout the scan in match the query cursor never decreases and
\* stays within 0..len(query); at most one candidate is pending and its
\* character equals, ignoring case, the query character just before the
\* cursor; at the end the committed positions are strictly increasing,
\* their number is the final cursor value, and the k-th committed position
\* holds a text character equal, ignoring case, to the k-th query character.
C20_ScanInvariant ==
    /\ []C20_State
    /\ [][scan'.q_idx >= scan.q_idx]_vars

\* a call that committed two positions, the second after a rematch took
\* the place of an earlier candidate
C20_Witness ==
    /\ mpc = "done"
    /\ Len(query) = 2
    /\ Len(terms) = 4
    /\ scan.matched_indices = <<1, 3>>
    /\ Lower(terms[3]) = Lower(terms[4])

(***************************************************************************)
(* Fuzzy.filter_feedback as a process: one call on a fresh instance.       *)
(***************************************************************************)
MaxItems == 3

\* the candidates items are drawn from
Firefox == [title |-> <<70, 105, 114, 101, 102, 111, 120>>]
Safari == [title |-> <<83, 97, 102, 97, 114, 105>>]
Chrome == [title |-> <<67, 104, 114, 111, 109, 101>>]
\* title "caf" + e-acute
Cafe == [title |-> <<99, 97, 102, 233>>]
\* title "cafe"
CafePlain == [title |-> <<99, 97, 102, 101>>]
\* title "Web", match "Firefox"
WebFirefox == [title |-> <<87, 101, 98>>, match |-> <<70, 105, 114, 101, 102, 111, 120>>]
\* title "fx", match "Web"
FxWeb == [title |-> <<102, 120>>, match |-> <<87, 101, 98>>]
\* title "Chrome", uid "1"
ChromeUid == [title |-> <<67, 104, 114, 111, 109, 101>>, uid |-> <<49>>]

Candidates ==
    {Firefox, Safari, Chrome, Cafe, CafePlain, WebFirefox, FxWeb, ChromeUid}

\* the queries: "", "fx", "c", "cafe", "caf" + e-acute
FilterQueries ==
    {<<>>, <<102, 120>>, <<99>>, <<99, 97, 102, 101>>, <<99, 97, 102, 233>>}

FilterInit ==
    /\ fb_in \in SeqsUpTo(Candidates, MaxItems)
    /\ fb = fb_in
    /\ fquery \in FilterQueries
    /\ fpc = "call"
    /\ memo = NoMemo
    /\ MatchIdle
    /\ CacheIdle
    /\ MainIdle

\* filter_feedback(fb, fquery), whole: score, drop, sort, replace fb['items']
FilterCall ==
    /\ fpc = "call"
    /\ fb' = FilterFeedback(fb, fquery)
    /\ memo' = [memo EXCEPT ![self] = @ \cup MemoEntries(fb, fquery)]
    /\ fpc' = "done"
    /\ UNCHANGED <<fb_in, fquery, self, query, terms, scan, mpc, result, cvars, nvars>>

FilterNext == FilterCall

SpecFilter == FilterInit /\ [][FilterNext]_vars

(***************************************************************************)
(* Claims about Fuzzy.filter_feedback, checked under SpecFilter.           *)
(***************************************************************************)
\* how often candidate c occurs in the list L
Count(L, c) == Cardinality({i \in 1..Len(L) : L[i] = c})

\* a candidate's match text: the match field if present, else the title
MatchText(it) == IF "match" \in DOMAIN it THEN it.match ELSE it.title

\* the same, diacritic-folded when the query is plain ASCII
FoldedMatchText(it) ==
    IF isascii(fquery) THEN fold_diacritics(MatchText(it)) ELSE MatchText(it)

\* the positions of the input whose candidate survives, by the text given
SurvivesRaw(i) == Match(fquery, MatchText(fb_in[i])).matched

SurvivesFolded(i) == Match(fquery, FoldedMatchText(fb_in[i])).matched

ScoreOf(it) == Match(fquery, FoldedMatchText(it)).score

\* C5 as claimed: the result holds exactly the candidates whose match text
\* (the match field if present, else the title) is matched by
\* match(query, text), each once and unmodified, by non-increasing score.
C5_Claim ==
    fpc = "done" =>
        /\ \A c \in Candidates :
              Count(fb, c) = Cardinality({i \in 1..Len(fb_in) :
                                             fb_in[i] = c /\ SurvivesRaw(i)})
        /\ \A i \in 1..Len(fb) : \A j \in 1..Len(fb) :
              i < j => ScoreOf(fb[i]) >= ScoreOf(fb[j])

\* C5 amended: the result holds exactly the candidates whose match text
\* (the match field if present, else the title), diacritic-folded first when
\* the query is plain ASCII, is matched by match(query, .), each once and
\* unmodified, by non-increasing score of that match; Firefox, Safari,
\* Chrome with query "fx" yield exactly [Firefox].
C5_FilterExact ==
    fpc = "done" =>
        /\ \A c \in Candidates :
              Count(fb, c) = Cardinality({i \in 1..Len(fb_in) :
                                             fb_in[i] = c /\ SurvivesFolded(i)})
        /\ \A i \in 1..Len(fb) : fb[i] \in Candidates
        /\ \A i \in 1..Len(fb) : \A j \in 1..Len(fb) :
              i < j => ScoreOf(fb[i]) >= ScoreOf(fb[j])
        /\ (fb_in = <<Firefox, Safari, Chrome>> /\ fquery = <<102, 120>>)
              => fb = <<Firefox>>

\* the scenario of the claim, and a call in which a match override decides
C5_Witness ==
    /\ fpc = "done"
    /\ fquery = <<102, 120>>
    /\ \/ fb_in = <<Firefox, Safari, Chrome>> /\ fb = <<Firefox>>
       \/ fb_in = <<FxWeb, WebFirefox>> /\ fb = <<WebFirefox>>

\* C6 as claimed: two candidates that survive with equal score keep their
\* relative order of the input, whatever their titles or payload are.
C6_Claim ==
    fpc = "done" =>
        \A i \in 1..Len(fb_in) : \A j \in 1..Len(fb_in) :
            (/\ i < j
             /\ fb_in[i] # fb_in[j]
             /\ Count(fb_in, fb_in[i]) = 1
             /\ Count(fb_in, fb_in[j]) = 1
             /\ SurvivesFolded(i)
             /\ SurvivesFolded(j)
             /\ ScoreOf(fb_in[i]) = ScoreOf(fb_in[j]))
            => \E a \in 1..Len(fb) : \E b \in 1..Len(fb) :
                  a < b /\ fb[a] = fb_in[i] /\ fb[b] = fb_in[j]

\* u holds only plain ASCII characters
IsPlainASCII(u) == \A i \in 1..Len(u) : u[i] < 128

\* the text of candidate it that the claimed fold mode has scored: folded
\* when the query is plain ASCII, as it is otherwise
ScoredText(it) ==
    IF IsPlainASCII(fquery) THEN fold_diacritics(MatchText(it)) ELSE MatchText(it)

\* C11: filter_feedback decides the fold mode once per call from the query
\* alone: with a plain ASCII query every candidate's match text is
\* diacritic-folded before it is scored, otherwise every candidate's text is
\* scored as it is (the memo of the call holds exactly the pairs of the query
\* and those texts); so query "cafe" keeps a candidate with text "caf" +
\* e-acute, and query "caf" + e-acute drops a candidate with text "cafe".
C11_FoldMode ==
    fpc = "done" =>
        /\ memo[self] = {[key |-> <<fquery, ScoredText(fb_in[i])>>,
                          res |-> Match(fquery, ScoredText(fb_in[i]))] :
                             i \in 1..Len(fb_in)}
        /\ \A c \in Candidates :
              Count(fb, c) =
                  Cardinality({i \in 1..Len(fb_in) :
                                  fb_in[i] = c /\ Match(fquery, ScoredText(c)).matched})
        /\ fquery = <<99, 97, 102, 101>> =>
              \A i \in 1..Len(fb_in) : fb_in[i] = Cafe => Count(fb, Cafe) > 0
        /\ fquery = <<99, 97, 102, 233>> => Count(fb, CafePlain) = 0

\* a call with the accented query that kept the accented candidate and
\* dropped the plain one
C11_Witness ==
    /\ fpc = "done"
    /\ fquery = <<99, 97, 102, 233>>
    /\ fb_in = <<CafePlain, Cafe>>
    /\ fb = <<Cafe>>

(***************************************************************************)
(* Cache.load as a process per invocation.  The steps are the accesses to  *)
(* what the invocations share: the cache directory and its files.          *)
(***************************************************************************)
Set(p, r) == proc' = [proc EXCEPT ![p] = r]

\* main() starts: Cache(cmd), load() and the session_id property.  The
\* environment supplies a session id or none; the pid is the process's own.
\* Invocations are numbered in the order they start, and the pid of a
\* resumed one, which line 326 never reads, is left out.
Invoke(p) ==
    /\ proc[p].pc = "idle"
    /\ \A o \in Procs : o < p => proc[o].pc # "idle"
    /\ \E sid \in Tokens \cup {NoToken} : \E pid \in Tokens \cup {NoToken} :
          /\ sid = NoToken <=> pid # NoToken
          /\ Set(p, [proc[p] EXCEPT
                 !.env_sid = sid,
                 !.pid = pid,
                 !.session_id = IF sid # NoToken THEN sid ELSE pid,
                 !.from_cache = (sid # NoToken),
                 !.pc = IF sid # NoToken THEN "path" ELSE "run"])
    /\ UNCHANGED <<dir_exists, files, openers, orphans, clr, mvars, fvars, nvars>>

\* where load() goes on once self.cache_path is known: line 292 in a
\* resumed session, line 311 in a new one
AfterPath(p) == IF proc[p].from_cache THEN "exists" ELSE "open"

\* cache_path: os.path.exists(self.cache_dir)
CheckDir(p) ==
    /\ proc[p].pc = "path"
    /\ Set(p, [proc[p] EXCEPT !.pc = IF dir_exists THEN AfterPath(p) ELSE "mkdir"])
    /\ UNCHANGED <<dir_exists, files, openers, orphans, clr, mvars, fvars, nvars>>

\* cache_path: os.makedirs(self.cache_dir, 0700), which raises OSError when
\* the directory exists by now
MakeDir(p) ==
    /\ proc[p].pc = "mkdir"
    /\ IF dir_exists
       THEN /\ Set(p, [proc[p] EXCEPT !.pc = "failed", !.err = "mkdir"])
            /\ UNCHANGED dir_exists
       ELSE /\ Set(p, [proc[p] EXCEPT !.pc = AfterPath(p)])
            /\ dir_exists' = TRUE
    /\ UNCHANGED <<files, openers, orphans, clr, mvars, fvars, nvars>>

\* line 292: os.path.exists(self.cache_path), in a resumed session
CheckFileAlwaysRun(p) ==
    /\ proc[p].pc = "exists"
    /\ Set(p, [proc[p] EXCEPT
           !.saw_file = IF files[proc[p].session_id] # NoFile THEN "yes" ELSE "no",
           !.pc = "run"])
    /\ UNCHANGED <<dir_exists, files, openers, orphans, clr, mvars, fvars, nvars>>

CheckFile(p) ==
    /\ proc[p].pc = "exists"
    /\ Set(p, [proc[p] EXCEPT
           !.saw_file = IF files[proc[p].session_id] # NoFile THEN "yes" ELSE "no",
           !.pc = IF files[proc[p].session_id] # NoFile THEN "openr" ELSE "run"])
    /\ UNCHANGED <<dir_exists, files, openers, orphans, clr, mvars, fvars, nvars>>

\* load() from line 300 on, with the text js in hand: parse it; in a new
\* session inject the session id and go on to write the file, in a resumed
\* one return the document
ParsedUnchecked(p, js) ==
    LET doc == Loads(js)
    IN  IF proc[p].from_cache
        THEN [proc[p] EXCEPT !.js = js, !.pc = "done", !.fb = doc, !.ret = doc]
        ELSE [proc[p] EXCEPT !.js = js, !.pc = "path",
                             !.fb = Inject(doc, proc[p].session_id)]

Parsed(p, js) ==
    LET doc == Loads(js)
    IN  IF doc = Invalid
        THEN [proc[p] EXCEPT !.js = js, !.pc = "failed", !.err = "parse"]
        ELSE IF proc[p].from_cache
        THEN [proc[p] EXCEPT !.js = js, !.pc = "done", !.fb = doc, !.ret = doc]
        ELSE [proc[p] EXCEPT !.js = js, !.pc = "path",
                             !.fb = Inject(doc, proc[p].session_id)]

\* the invocation whose complete write the file of token t holds: the only
\* one that ever opened it, once it has returned; 0 if there is none
SoleWriter(t) ==
    IF \E w \in Procs : openers[t] = {w} /\ proc[w].pc = "done"
    THEN CHOOSE w \in Procs : openers[t] = {w}
    ELSE 0

\* line 294: open(self.cache_path), which raises IOError when the name is
\* gone by now
OpenRead(p) ==
    /\ proc[p].pc = "openr"
    /\ IF files[proc[p].session_id] = NoFile
       THEN Set(p, [proc[p] EXCEPT !.pc = "failed", !.err = "open"])
       ELSE Set(p, [proc[p] EXCEPT !.pc = "read", !.fd = Linked])
    /\ UNCHANGED <<dir_exists, files, openers, orphans, clr, mvars, fvars, nvars>>

\* the text of the file the descriptor of p is open on
Content(p) ==
    IF proc[p].fd = Linked THEN files[proc[p].session_id] ELSE orphans[proc[p].fd]

\* the orphans orph once p has closed its descriptor: an unlinked file goes
\* with its last descriptor
Closed(p, orph) ==
    IF /\ proc[p].fd \in Procs
       /\ \A o \in Procs \ {p} : proc[o].fd # proc[p].fd
    THEN [orph EXCEPT ![proc[p].fd] = NoFile]
    ELSE orph

\* lines 295-301: fp.read() of the file the descriptor was opened on,
\* linked or not, the file is closed, and the text is parsed
ReadFile(p) ==
    /\ proc[p].pc = "read"
    /\ Set(p, [Parsed(p, Content(p)) EXCEPT
           !.fd = NoFd,
           !.read_src = SoleWriter(proc[p].session_id)])
    /\ orphans' = Closed(p, orphans)
    /\ UNCHANGED <<dir_exists, files, openers, clr, mvars, fvars, nvars>>

\* lines 297-309: run the producer and parse what it printed
RunProducer(p) ==
    /\ proc[p].pc = "run"
    /\ \E out \in cmd :
          IF out = ProducerFailed
          THEN Set(p, [proc[p] EXCEPT !.pc = "failed", !.err = "producer",
                                      !.runs = @ + 1])
          ELSE Set(p, [Parsed(p, out) EXCEPT !.runs = proc[p].runs + 1])
    /\ UNCHANGED <<dir_exists, files, openers, orphans, clr, mvars, fvars, nvars>>

\* line 311: open(self.cache_path, 'wb') creates the file or truncates it
OpenFile(p) ==
    /\ proc[p].pc = "open"
    /\ files' = [files EXCEPT ![proc[p].session_id] = <<>>]
    /\ openers' = [openers EXCEPT ![proc[p].session_id] = @ \cup {p}]
    /\ Set(p, [proc[p] EXCEPT !.pc = "write", !.fd = Linked])
    /\ UNCHANGED <<dir_exists, orphans, clr, mvars, fvars, nvars>>

\* lines 312-315: json.dump(fb, fp), the file is closed, and load() returns.
\* The text goes to the file the descriptor was opened on: when clear() has
\* unlinked it since, the name stays as it is.
WriteFile(p) ==
    /\ proc[p].pc = "write"
    /\ IF proc[p].fd = Linked
       THEN /\ files' = [files EXCEPT
                            ![proc[p].session_id] = Overwrite(@, Dump(proc[p].fb))]
            /\ UNCHANGED orphans
       ELSE /\ orphans' = Closed(p, [orphans EXCEPT
                                       ![proc[p].fd] = Overwrite(@, Dump(proc[p].fb))])
            /\ UNCHANGED files
    /\ Set(p, [proc[p] EXCEPT !.pc = "done", !.ret = proc[p].fb, !.fd = NoFd,
                              !.writes = @ + 1])
    /\ UNCHANGED <<dir_exists, openers, clr, mvars, fvars, nvars>>

\* Cache.clear(), lines 345-348: nothing to do while the cache directory
\* does not exist or is empty; otherwise os.listdir names the files there
ClearList ==
    /\ clr.pc = "idle"
    /\ dir_exists
    /\ {t \in Tokens : files[t] # NoFile} # {}
    /\ clr' = [pc |-> "unlink", todo |-> {t \in Tokens : files[t] # NoFile}]
    /\ UNCHANGED <<proc, dir_exists, files, openers, orphans, mvars, fvars, nvars>>

\* the invocations that have a descriptor open on the file named t
Holders(t) == {p \in Procs : proc[p].fd = Linked /\ proc[p].session_id = t}

\* the first of orphans that is not in use
FreeOrphan ==
    CHOOSE o \in Procs :
        orphans[o] = NoFile /\ \A k \in Procs : k < o => orphans[k] # NoFile

\* Cache.clear(), line 349: os.unlink of one of the listed names, in the
\* order os.listdir gave, which is any.  The descriptors open on the file
\* stay open on it, without the name: it lives on, unlinked, until they are
\* closed.  os.unlink raises OSError when the name is gone, and clear() ends
\* there.  After the last name clear() returns.
ClearUnlink ==
    /\ clr.pc = "unlink"
    /\ \E t \in clr.todo :
          IF files[t] = NoFile
          THEN /\ clr' = ClearIdle
               /\ UNCHANGED <<proc, files, orphans>>
          ELSE /\ files' = [files EXCEPT ![t] = NoFile]
               /\ IF Holders(t) = {}
                  THEN UNCHANGED <<proc, orphans>>
                  ELSE /\ orphans' = [orphans EXCEPT ![FreeOrphan] = files[t]]
                       /\ proc' = [p \in Procs |->
                                      IF p \in Holders(t)
                                      THEN [proc[p] EXCEPT !.fd = FreeOrphan]
                                      ELSE proc[p]]
               /\ clr' = IF clr.todo = {t} THEN ClearIdle
                         ELSE [clr EXCEPT !.todo = @ \ {t}]
    /\ UNCHANGED <<dir_exists, openers, mvars, fvars, nvars>>

CacheInit ==
    /\ CacheIdle
    /\ MatchIdle
    /\ FilterIdle
    /\ MainIdle
    /\ memo = NoMemo

CacheNext ==
    \/ \E p \in Procs :
          \/ Invoke(p)
          \/ CheckDir(p)
          \/ MakeDir(p)
          \/ CheckFile(p)
          \/ OpenRead(p)
          \/ ReadFile(p)
          \/ RunProducer(p)
          \/ OpenFile(p)
          \/ WriteFile(p)
    \/ ClearList
    \/ ClearUnlink

SpecCache == CacheInit /\ [][CacheNext]_vars

(***************************************************************************)
(* Claims about Cache.load, checked under SpecCache.                       *)
(***************************************************************************)
\* invocation p has started in New state (no session id supplied)
IsNew(p) == proc[p].pc # "idle" /\ ~proc[p].from_cache

\* invocation p has started in Resume state (a session id was supplied)
IsResume(p) == proc[p].pc # "idle" /\ proc[p].from_cache

Ended(p) == proc[p].pc \in {"done", "failed"}

\* C1: load() invokes the producer exactly once in a New invocation, and a
\* Resume invocation invokes it zero times unless the token's cache file is
\* absent when it loads.
C1_ProducerRuns ==
    \A p \in Procs :
        /\ proc[p].runs <= 1
        /\ IsNew(p) => proc[p].runs = (IF proc[p].pc = "run" THEN 0 ELSE 1)
        /\ (IsResume(p) /\ proc[p].runs > 0) => proc[p].saw_file = "no"
        /\ (IsResume(p) /\ proc[p].saw_file = "yes") => proc[p].runs = 0

\* a session: a New invocation that ran the producer once and returned, and
\* a Resume invocation with its token that returned without running it
C1_Witness ==
    \E p \in Procs : \E r \in Procs :
        /\ IsNew(p) /\ proc[p].pc = "done" /\ proc[p].runs = 1
        /\ IsResume(r) /\ proc[r].pc = "done" /\ proc[r].runs = 0
        /\ proc[r].env_sid = proc[p].session_id
        /\ proc[r].read_src = p

\* C2: a Resume load() that reads the file a New load() with the same token
\* wrote returns a document equal to the one the New load() returned, the
\* injected session variable included, without invoking the producer and
\* without writing the file, whatever the producer would do if invoked.
C2_RoundTrip ==
    \A r \in Procs :
        /\ (IsResume(r) /\ proc[r].saw_file = "yes") =>
              /\ proc[r].runs = 0
              /\ proc[r].writes = 0
              /\ \A t \in Tokens : r \notin openers[t]
        /\ proc[r].read_src # 0 =>
              LET p == proc[r].read_src
              IN  /\ IsNew(p)
                  /\ IsResume(r)
                  /\ proc[r].session_id = proc[p].session_id
                  /\ proc[r].pc = "done"
                  /\ proc[r].ret = proc[p].ret
                  /\ proc[r].ret["variables"][SID] = proc[r].env_sid

\* a Resume load() has returned the document, with items and the session
\* variable, that a New load() wrote
C2_Witness ==
    \E r \in Procs :
        /\ proc[r].read_src # 0
        /\ proc[r].pc = "done"
        /\ "items" \in DOMAIN proc[r].ret
        /\ proc[r].ret = proc[proc[r].read_src].ret
        /\ proc[r].ret["variables"][SID] = proc[r].env_sid

\* C3 as claimed: a Resume load() that finds the token's cache file missing
\* invokes the producer, injects the session token under SID, writes the
\* document to the token's cache file and returns it, so the file exists
\* after that load().
C3_Claim ==
    \A r \in Procs :
        (IsResume(r) /\ proc[r].saw_file = "no" /\ proc[r].pc = "done") =>
            /\ proc[r].runs = 1
            /\ "variables" \in DOMAIN proc[r].ret
            /\ SID \in DOMAIN proc[r].ret["variables"]
            /\ proc[r].ret["variables"][SID] = proc[r].session_id
            /\ proc[r].writes = 1
            /\ files[proc[r].session_id] # NoFile

\* the text load() got is not valid JSON, or is an object without items
Malformed(js) == Loads(js) = Invalid \/ "items" \notin DOMAIN Loads(js)

\* C9 as claimed: when the text load() got (from the producer or the cache
\* file) is not valid JSON or lacks items, load() returns no document and
\* the document does not reach the cache file.
C9_Claim ==
    \A p \in Procs :
        (proc[p].js # NoText /\ Malformed(proc[p].js)) =>
            /\ proc[p].pc # "done"
            /\ proc[p].ret = NoDoc
            /\ proc[p].writes = 0
            /\ p \notin openers[proc[p].session_id]

\* C10 as claimed: once two New invocations with the same token have both
\* finished, the token's cache file, unless clear() has removed it, holds
\* exactly one of their two complete documents, and every Resume load()
\* that read the file while or after they ran parsed a well-formed document.
C10_Claim ==
    \A p \in Procs : \A q \in Procs :
        (/\ p # q
         /\ IsNew(p) /\ IsNew(q)
         /\ proc[p].session_id = proc[q].session_id) =>
            /\ (proc[p].pc = "done" /\ proc[q].pc = "done") =>
                  files[proc[p].session_id] \in
                      {Dump(proc[p].ret), Dump(proc[q].ret), NoFile}
            /\ \A r \in Procs :
                  (/\ IsResume(r)
                   /\ proc[r].session_id = proc[p].session_id
                   /\ proc[r].saw_file = "yes"
                   /\ proc[r].js # NoText) => Loads(proc[r].js) # Invalid

\* C16 as claimed: the cache directory is created only when an invocation
\* needs its cache path, and once: under every interleaving of invocations
\* that start while it does not exist, none of them fails in creating it.
C16_Claim ==
    /\ dir_exists =>
          \E p \in Procs : IsResume(p) \/ (IsNew(p) /\ proc[p].runs = 1)
    /\ \A p \in Procs : ~(proc[p].pc = "failed" /\ proc[p].err = "mkdir")

\* load() of invocation p has failed in the producer or in json.loads
FailedLoad(p) == proc[p].pc = "failed" /\ proc[p].err \in {"producer", "parse"}

\* what C18 says of one state: an invocation whose load() failed, or whose
\* text does not parse, has opened and written no cache file
C18_State ==
    \A p \in Procs :
        (FailedLoad(p) \/ (proc[p].js # NoText /\ Loads(proc[p].js) = Invalid)) =>
            /\ proc[p].writes = 0
            /\ \A t \in Tokens : p \notin openers[t]

\* what C18 says of one step: the step in which a load() fails leaves
\* every cache file as it is
C18_Step ==
    \A p \in Procs :
        (proc[p].pc # "failed" /\ proc'[p].pc = "failed") =>
            /\ files' = files
            /\ openers' = openers

\* C18: if load() fails because the producer cannot be launched, exits
\* non-zero or prints what does not parse as JSON, no cache file is created,
\* truncated or modified for any token, in New and in Resume state.
C18_FailedLoadKeepsFiles ==
    /\ []C18_State
    /\ [][C18_Step]_vars

\* a New load() has run the producer and failed on its output, while the
\* cache file of its token holds the document another invocation wrote
C18_Witness ==
    \E p \in Procs : \E w \in Procs :
        /\ p # w
        /\ IsNew(p)
        /\ proc[p].runs = 1
        /\ FailedLoad(p)
        /\ proc[p].err = "parse"
        /\ proc[w].pc = "done"
        /\ proc[w].writes = 1
        /\ proc[w].session_id = proc[p].session_id
        /\ files[proc[p].session_id] = Dump(proc[w].ret)

\* C19 as claimed: in every reachable state each cache file <t>.json that
\* load() wrote holds a complete document whose variables bind SID to t, the
\* producer's other variables kept; so every Resume load() that reads a
\* cache file returns a document that carries the token it was given.
C19_Claim ==
    /\ \A t \in Tokens :
          (files[t] # NoFile /\ openers[t] # {}) =>
              /\ Loads(files[t]) # Invalid
              /\ "variables" \in DOMAIN Loads(files[t])
              /\ SID \in DOMAIN Loads(files[t])["variables"]
              /\ Loads(files[t])["variables"][SID] = t
    /\ \A r \in Procs :
          (IsResume(r) /\ proc[r].saw_file = "yes" /\ Ended(r)) =>
              /\ proc[r].pc = "done"
              /\ "variables" \in DOMAIN proc[r].ret
              /\ SID \in DOMAIN proc[r].ret["variables"]
              /\ proc[r].ret["variables"][SID] = proc[r].env_sid

(***************************************************************************)
(* main() as a process per invocation: load (the steps of Cache.load       *)
(* above), filter, output.  The invocations of one behaviour are started   *)
(* with the same producer command and the same query.                      *)
(***************************************************************************)
\* the values of the environment variable query, as UTF-8 bytes: unset or
\* empty, "fx", "c", "cafe", "caf" + e-acute composed, and "cafe" + the
\* combining acute accent
MainQueries ==
    {<<>>, <<102, 120>>, <<99>>, <<99, 97, 102, 101>>,
     <<99, 97, 102, 195, 169>>, <<99, 97, 102, 101, 204, 129>>}

\* the item lists the producer command of main() may print
MainLists ==
    {<<"Firefox", "Safari", "Chrome">>, <<"Chrome", "Safari">>,
     <<"CafePlain", "Cafe">>, <<"FxWeb", "WebFirefox", "ChromeUid">>}

\* the JSON object an item token stands for, as json.loads returns it
ItemOf(n) ==
    CASE n = "Firefox" -> Firefox
      [] n = "Safari" -> Safari
      [] n = "Chrome" -> Chrome
      [] n = "Cafe" -> Cafe
      [] n = "CafePlain" -> CafePlain
      [] n = "WebFirefox" -> WebFirefox
      [] n = "FxWeb" -> FxWeb
      [] n = "ChromeUid" -> ChromeUid
      [] n = "i1" -> [title |-> <<105, 49>>]
      [] n = "i2" -> [title |-> <<105, 50>>]

\* the token json.dump writes for an item
NameOf(it) == CHOOSE n \in ItemNames : ItemOf(n) = it

\* fb['items'] of a document, as the list of dicts filter_feedback reads
Items(doc) == [i \in 1..Len(doc["items"]) |-> ItemOf(doc["items"][i])]

\* the document with fb['items'] replaced by the list its
Replaced(doc, its) ==
    [k \in DOMAIN doc |->
        IF k = "items" THEN [i \in 1..Len(its) |-> NameOf(its[i])] ELSE doc[k]]

\* the producer commands of main(): one prints a document with one of those
\* lists or fails, another prints a JSON object without items or fails
MainCmds ==
    {{Dump([items |-> L]), ProducerFailed} : L \in MainLists}
    \cup {{OutNoItems, ProducerFailed}}

MainInit ==
    /\ env_query \in MainQueries
    /\ cmd \in MainCmds
    /\ CacheIdle
    /\ MatchIdle
    /\ FilterIdle
    /\ memo = NoMemo

\* lines 366-370, once load() has returned: `if query:` decodes the query
\* and filters fb in place on a new Fuzzy instance; an empty or unset query
\* skips both.  fb['items'] raises KeyError on a document without items.
MainFilter(p) ==
    /\ proc[p].pc = "done"
    /\ IF env_query = <<>>
       THEN Set(p, [proc[p] EXCEPT !.pc = "filtered"])
       ELSE IF "items" \notin DOMAIN proc[p].fb
       THEN Set(p, [proc[p] EXCEPT !.pc = "failed", !.err = "items"])
       ELSE LET q == decode(env_query)
                its == Items(proc[p].fb)
            IN  Set(p, [proc[p] EXCEPT
                    !.fb = Replaced(@, FilterFeedback(its, q)),
                    !.memo = MemoEntries(its, q),
                    !.pc = "filtered"])
    /\ UNCHANGED <<dir_exists, files, openers, orphans, clr, mvars, fvars, nvars>>

\* line 372: json.dump(fb, sys.stdout), and main() returns
MainEmit(p) ==
    /\ proc[p].pc = "filtered"
    /\ Set(p, [proc[p] EXCEPT !.stdout = Dump(proc[p].fb), !.pc = "exit"])
    /\ UNCHANGED <<dir_exists, files, openers, orphans, clr, mvars, fvars, nvars>>

MainNext ==
    \/ \E p \in Procs :
          \/ Invoke(p)
          \/ CheckDir(p)
          \/ MakeDir(p)
          \/ CheckFile(p)
          \/ OpenRead(p)
          \/ ReadFile(p)
          \/ RunProducer(p)
          \/ OpenFile(p)
          \/ WriteFile(p)
          \/ MainFilter(p)
          \/ MainEmit(p)
    \/ ClearList
    \/ ClearUnlink

SpecMain == MainInit /\ [][MainNext]_vars

(***************************************************************************)
(* Claims about main(), checked under SpecMain.                            *)
(***************************************************************************)
\* the score of a candidate against the empty query
EmptyQueryScore(it) == Match(<<>>, MatchText(it)).score

\* the document the producer command prints
ProducerDoc == Loads(CHOOSE o \in cmd : o # ProducerFailed)

\* the candidates the producer command prints, in its order
ProducerItems == Items(ProducerDoc)

\* the candidates of the document invocation p wrote to sys.stdout
Emitted(p) == Items(Loads(proc[p].stdout))

\* C12 as claimed: an invocation with an empty query emits every producer
\* candidate, ordered by descending score, which is ascending length of the
\* match text: Firefox, Safari, Chrome are emitted as Chrome, Safari,
\* Firefox.
C12_Claim ==
    \A p \in Procs :
        (/\ proc[p].pc = "exit"
         /\ env_query = <<>>
         /\ "items" \in DOMAIN ProducerDoc) =>
            /\ "items" \in DOMAIN Loads(proc[p].stdout)
            /\ \A c \in Candidates :
                  Count(Emitted(p), c) = Count(ProducerItems, c)
            /\ \A i \in 1..Len(Emitted(p)) : \A j \in 1..Len(Emitted(p)) :
                  i < j =>
                      /\ EmptyQueryScore(Emitted(p)[i]) >= EmptyQueryScore(Emitted(p)[j])
                      /\ Len(MatchText(Emitted(p)[i])) <= Len(MatchText(Emitted(p)[j]))
            /\ ProducerItems = <<Firefox, Safari, Chrome>> =>
                  Emitted(p) = <<Chrome, Safari, Firefox>>

====
